---- MODULE Spec2Model ----
(***************************************************************************)
(* Model of connecteam_api.py: the weekly aggregator                      *)
(* get_weekly_totals_by_timeclock_id and the daily status engine          *)
(* get_employee_status_by_timeclock_id, with the external time-activities *)
(* query as a nondeterministic input (a response, or a failure) and the   *)
(* wall clock as a variable that advances on its own.                     *)
(*                                                                         *)
(* Conventions.  A timestamp is epoch seconds; an absent timestamp        *)
(* (Python None, or a missing "end" object) is 0: the code only ever      *)
(* tests timestamps for truthiness, which does not tell None from 0.      *)
(* A date is the number of days since 2024-01-01, a Monday, so that       *)
(* date.weekday() is the date modulo 7.  A value that a call may or may   *)
(* not have produced (a return value, a local not yet assigned) is a      *)
(* sequence of length 0 or 1.                                              *)
(***************************************************************************)
EXTENDS Integers, Sequences, FiniteSets, TLC

Max(a, b) == IF a >= b THEN a ELSE b

Truthy(ts) == ts /= 0

\* f"{n:02}" for n >= 0
Pad2(n) == IF n < 10 THEN "0" \o ToString(n) ELSE ToString(n)

\* Python's // and % floor like TLA+'s \div and %.
format_duration(seconds) ==
    LET hours == seconds \div 3600
        minutes == (seconds % 3600) \div 60
    IN  ToString(hours) \o ":" \o Pad2(minutes)

\* The configured zone, as its standard-time offset from UTC in hours
\* (America/Los_Angeles).
TZOffsetHours == -8

\* strftime("%I:%M %p").lstrip("0") of the timestamp in the configured zone
format_time_utc_timestamp(ts) ==
    LET local == ts + TZOffsetHours * 3600
        hour24 == (local \div 3600) % 24
        minute == (local \div 60) % 60
        hour12 == IF hour24 % 12 = 0 THEN 12 ELSE hour24 % 12
    IN  ToString(hour12) \o ":" \o Pad2(minute) \o " "
            \o (IF hour24 < 12 THEN "AM" ELSE "PM")

\* userId -> 'First L' of the active users; other ids are not in the map.
USER_MAP == (1 :> "Ann B") @@ (2 :> "Raj K")

\* USER_MAP.get(uid, str(uid))
NameOf(uid) == IF uid \in DOMAIN USER_MAP THEN USER_MAP[uid] ELSE ToString(uid)

\* is_within_business_hours, on the weekday and hour of its own now()
is_within_business_hours(weekday, current_hour) ==
    IF weekday = 6
    THEN 9 <= current_hour /\ current_hour < 17
    ELSE 8 <= current_hour /\ current_hour < 18

\* what is_within_business_hours can return: its value at every weekday and
\* hour that datetime.now(tz=TZ) can show
BusinessHoursOutcomes ==
    {is_within_business_hours(wd, h) : wd \in 0..6, h \in 0..23}

\* date.weekday(): Monday = 0 ... Sunday = 6
Weekday(d) == d % 7

MonthLengths == <<31, 29, 31, 30, 31, 30, 31, 31, 30, 31, 30, 31>>

RECURSIVE MonthDay(_, _)
MonthDay(n, m) ==
    IF n < MonthLengths[m] THEN <<m, n + 1>> ELSE MonthDay(n - MonthLengths[m], m + 1)

\* date.isoformat(): "YYYY-MM-DD"
IsoFormat(d) ==
    LET md == MonthDay(d, 1)
    IN  "2024-" \o Pad2(md[1]) \o "-" \o Pad2(md[2])

(***************************************************************************)
(* get_weekly_totals_by_timeclock_id: the reduction of one day's response *)
(***************************************************************************)

\* lines 92-97: total_secs of one user's shifts, open shifts credited to now_ts
RECURSIVE WeeklyShiftSecs(_, _)
WeeklyShiftSecs(shifts, now) ==
    IF shifts = <<>> THEN 0
    ELSE LET st == Head(shifts).start
             en == Head(shifts).end
         IN  (IF Truthy(st) THEN (IF Truthy(en) THEN en ELSE now) - st ELSE 0)
                 + WeeklyShiftSecs(Tail(shifts), now)

\* lines 98-102: sum of end - start over the breaks with both timestamps
RECURSIVE WeeklyBreakSecs(_)
WeeklyBreakSecs(breaks) ==
    IF breaks = <<>> THEN 0
    ELSE LET br == Head(breaks)
         IN  (IF Truthy(br.start) /\ Truthy(br.end) THEN br.end - br.start ELSE 0)
                 + WeeklyBreakSecs(Tail(breaks))

\* line 103
WeeklyNet(ua, now) ==
    Max(0, WeeklyShiftSecs(ua.shifts, now) - WeeklyBreakSecs(ua.manualBreaks))

\* lines 105-107: setdefault, then dailySecs[ds] = net and weeklySecs += net
AddNet(summ, uid, ds, net) ==
    LET entry == IF uid \in DOMAIN summ THEN summ[uid]
                 ELSE [dailySecs |-> <<>>, weeklySecs |-> 0]
        daily == [k \in (DOMAIN entry.dailySecs) \cup {ds} |->
                     IF k = ds THEN net ELSE entry.dailySecs[k]]
        updated == [dailySecs |-> daily, weeklySecs |-> entry.weeklySecs + net]
    IN  [u \in (DOMAIN summ) \cup {uid} |-> IF u = uid THEN updated ELSE summ[u]]

\* lines 90-107: the loop over one day's users_data
RECURSIVE FoldDay(_, _, _, _)
FoldDay(summ, users_data, ds, now) ==
    IF users_data = <<>> THEN summ
    ELSE LET ua == Head(users_data)
         IN  FoldDay(AddNet(summ, ua.userId, ds, WeeklyNet(ua, now)),
                     Tail(users_data), ds, now)

\* lines 109-113: the final pass
Finalize(summ) ==
    [u \in DOMAIN summ |->
        [dailySecs  |-> summ[u].dailySecs,
         weeklySecs |-> summ[u].weeklySecs,
         dailyOver8 |-> [d \in DOMAIN summ[u].dailySecs |->
                            summ[u].dailySecs[d] >= 8 * 3600],
         weekOver40 |-> summ[u].weeklySecs > 40 * 3600]]

(***************************************************************************)
(* get_employee_status_by_timeclock_id: one user's record to one snapshot *)
(***************************************************************************)

\* lines 143-153: total_secs and current_start_ts (0 is None); the last open
\* shift met is the current one
RECURSIVE WalkShifts(_, _, _)
WalkShifts(shifts, now, acc) ==
    IF shifts = <<>> THEN acc
    ELSE LET st == Head(shifts).start
             en == Head(shifts).end
             next == IF Truthy(st)
                     THEN IF Truthy(en)
                          THEN [acc EXCEPT !.total_secs = @ + (en - st)]
                          ELSE [total_secs |-> acc.total_secs + (now - st),
                                current_start_ts |-> st]
                     ELSE acc
         IN  WalkShifts(Tail(shifts), now, next)

\* lines 155-163: break_secs and on_break
RECURSIVE WalkBreaks(_, _)
WalkBreaks(breaks, acc) ==
    IF breaks = <<>> THEN acc
    ELSE LET bs == Head(breaks).start
             be == Head(breaks).end
             onb == IF Truthy(bs) /\ ~Truthy(be) THEN TRUE ELSE acc.on_break
             secs == IF Truthy(bs) /\ Truthy(be)
                     THEN acc.break_secs + (be - bs) ELSE acc.break_secs
         IN  WalkBreaks(Tail(breaks), [break_secs |-> secs, on_break |-> onb])

\* line 165 without the clamp
NetDailySecsUnclamped(total_secs, break_secs) == total_secs - break_secs

\* line 165
NetDailySecs(total_secs, break_secs) == Max(0, total_secs - break_secs)

\* line 168: weekly.get(uid, {}).get("weeklySecs", 0)
WeeklySecsOf(wk, uid) == IF uid \in DOMAIN wk THEN wk[uid].weeklySecs ELSE 0

\* lines 167-170 with the weekly overtime left out
OtSecsDailyOnly(net_daily_secs, weekly_secs) == Max(0, net_daily_secs - 8 * 3600)

\* lines 167-170
OtSecs(net_daily_secs, weekly_secs) ==
    LET daily_ot == Max(0, net_daily_secs - 8 * 3600)
        weekly_ot == Max(0, weekly_secs - 40 * 3600)
    IN  Max(daily_ot, weekly_ot)

\* lines 172-185 with the thresholds compared by <=
LunchInclusive(total_secs, break_secs) ==
    IF break_secs > 0 THEN <<"Taken", "lunch-ok">>
    ELSE IF total_secs <= 4 * 3600 THEN <<"Not Yet Due", "lunch-ok">>
    ELSE IF total_secs <= 5 * 3600 THEN <<"Due Now", "lunch-due">>
    ELSE <<"Overdue by " \o format_duration(total_secs - 5 * 3600), "lunch-overdue">>

\* lines 172-185: <<lunch_status, lunch_class>>
Lunch(total_secs, break_secs) ==
    IF break_secs > 0 THEN <<"Taken", "lunch-ok">>
    ELSE IF total_secs < 4 * 3600 THEN <<"Not Yet Due", "lunch-ok">>
    ELSE IF total_secs < 5 * 3600 THEN <<"Due Now", "lunch-due">>
    ELSE <<"Overdue by " \o format_duration(total_secs - 5 * 3600), "lunch-overdue">>

\* line 187 with the open shift tested before the open break
StatusShiftFirst(on_break, current_start_ts) ==
    IF Truthy(current_start_ts) THEN "Clocked In"
    ELSE IF on_break THEN "On Lunch" ELSE "Off"

\* line 187
Status(on_break, current_start_ts) ==
    IF on_break THEN "On Lunch"
    ELSE IF Truthy(current_start_ts) THEN "Clocked In" ELSE "Off"

\* lines 189-196
SegmentSecs(current_start_ts, now) ==
    IF Truthy(current_start_ts) THEN now - current_start_ts ELSE 0

\* lines 143-209 for one activity record: the locals, and the dict appended to
\* employees (emp); currentSegmentStart None is the string "None"
Row(ua, wk, now) ==
    LET sh == WalkShifts(ua.shifts, now, [total_secs |-> 0, current_start_ts |-> 0])
        br == WalkBreaks(ua.manualBreaks, [break_secs |-> 0, on_break |-> FALSE])
        net_daily_secs == NetDailySecs(sh.total_secs, br.break_secs)
        weekly_secs == WeeklySecsOf(wk, ua.userId)
        ot_secs == OtSecs(net_daily_secs, weekly_secs)
        lunch == Lunch(sh.total_secs, br.break_secs)
        segment_secs == SegmentSecs(sh.current_start_ts, now)
    IN  [uid |-> ua.userId,
         shifts |-> ua.shifts,
         manualBreaks |-> ua.manualBreaks,
         total_secs |-> sh.total_secs,
         current_start_ts |-> sh.current_start_ts,
         break_secs |-> br.break_secs,
         on_break |-> br.on_break,
         net_daily_secs |-> net_daily_secs,
         weekly_secs |-> weekly_secs,
         ot_secs |-> ot_secs,
         emp |-> [name |-> NameOf(ua.userId),
                  currentSegmentStart |->
                      IF Truthy(sh.current_start_ts)
                      THEN format_time_utc_timestamp(sh.current_start_ts)
                      ELSE "None",
                  currentTimeOnClock |->
                      IF Truthy(sh.current_start_ts)
                      THEN format_duration(now - sh.current_start_ts)
                      ELSE "0:00",
                  _segmentSecs |-> segment_secs,
                  totalTimeOnClock |-> format_duration(net_daily_secs),
                  otToday |-> format_duration(ot_secs),
                  breakTaken |-> format_duration(br.break_secs),
                  status |-> Status(br.on_break, sh.current_start_ts),
                  lunchStatus |-> lunch[1],
                  lunchClass |-> lunch[2]]]

\* lines 136-141 and 198 without the skip of the records that have no shifts
RECURSIVE RowsOfAll(_, _, _)
RowsOfAll(acts, wk, now) ==
    IF acts = <<>> THEN <<>>
    ELSE <<Row(Head(acts), wk, now)>> \o RowsOfAll(Tail(acts), wk, now)

\* lines 136-141 and 198: the rows of the records that have shifts, in order
RECURSIVE Rows(_, _, _)
Rows(acts, wk, now) ==
    IF acts = <<>> THEN <<>>
    ELSE IF Head(acts).shifts = <<>> THEN Rows(Tail(acts), wk, now)
    ELSE <<Row(Head(acts), wk, now)>> \o Rows(Tail(acts), wk, now)

\* the sort's order without reverse=True
BeforeAscending(a, b) == a.emp._segmentSecs < b.emp._segmentSecs

\* the sort's order on two snapshots: a goes before b when its key is larger
Before(a, b) == a.emp._segmentSecs > b.emp._segmentSecs

\* line 211: list.sort(key=_segmentSecs, reverse=True) is stable, so a row goes
\* behind every row already placed that it does not go before
RECURSIVE InsertRow(_, _)
InsertRow(sorted, r) ==
    IF sorted = <<>> THEN <<r>>
    ELSE IF Before(r, Head(sorted)) THEN <<r>> \o sorted
    ELSE <<Head(sorted)>> \o InsertRow(Tail(sorted), r)

RECURSIVE SortRows(_, _)
SortRows(rs, sorted) ==
    IF rs = <<>> THEN sorted ELSE SortRows(Tail(rs), InsertRow(sorted, Head(rs)))

\* lines 212-213: e.pop("_segmentSecs", None)
Pop(e) == [k \in (DOMAIN e) \ {"_segmentSecs"} |-> e[k]]

\* lines 136-215: the sorted rows; the returned list is their emp, popped
SortedRows(acts, wk, now) == SortRows(Rows(acts, wk, now), <<>>)

Employees(rs) == [i \in 1..Len(rs) |-> Pop(rs[i].emp)]

(***************************************************************************)
(* Bounds and inputs                                                       *)
(***************************************************************************)

\* calls made in one run of the process
MaxCalls == 2

\* seconds the wall clock can advance while calls are in flight
MaxTicks == 1

\* reference dates tried, from FirstDate on
NumDates == 3

\* the wall clock at the start: 2024-01-29 20:00:00 UTC
Clock0 == 19751 * 86400 + 20 * 3600

\* 2024-01-28, a Sunday; the next day starts a week that runs into February
FirstDate == 20 + 7

RefDates == FirstDate .. (FirstDate + NumDates - 1)

\* a timestamp h hours before Clock0
Ago(h) == Clock0 - h * 3600

Shift(st, en) == [start |-> st, end |-> en]

Rec(uid, shifts, breaks) == [userId |-> uid, shifts |-> shifts, manualBreaks |-> breaks]

\* timeActivitiesByUsers of a day of the week (line 88): user 1 for 6h and
\* user 2 on an open shift with a completed break of 1h
WeekFull ==
    << Rec(1, <<Shift(Ago(7), Ago(1))>>, <<>>),
       Rec(2, <<Shift(Ago(2), 0)>>, <<Shift(Ago(6), Ago(5))>>) >>

\* user 1 in two records: for 2h, and for 1h with a completed break of 2h
WeekTwice ==
    << Rec(1, <<Shift(Ago(3), Ago(1))>>, <<>>),
       Rec(1, <<Shift(Ago(4), Ago(3))>>, <<Shift(Ago(6), Ago(4))>>) >>

WeekResponses == {WeekFull, WeekTwice}

\* timeActivitiesByUsers of the day (line 130): user 1 on an open shift of 9h;
\* user 1 for 7h, user 3 (in no week response) with no shifts, user 2 with a
\* completed break longer than the shifts
DayResponses ==
    { << Rec(1, <<Shift(Ago(9), 0)>>, <<>>) >>,
      << Rec(1, <<Shift(Ago(8), Ago(1))>>, <<>>),
         Rec(3, <<>>, <<>>),
         Rec(2, <<Shift(Ago(5), Ago(4)), Shift(Ago(1), 0)>>, <<Shift(Ago(4), Ago(1))>>) >> }

\* records of one day, for the runs that vary the day and hold the week fixed
MaxRecs == 2

\* shift lists: closed after 4h; closed after 3h and open from the second of
\* Clock0; two open shifts, 3h and 2h old
DayShiftLists ==
    { <<Shift(Ago(9), Ago(5))>>,
      <<Shift(Ago(4), Ago(1)), Shift(Clock0, 0)>>,
      <<Shift(Ago(3), 0), Shift(Ago(2), 0)>> }

\* break lists: none; one open; one completed, of 1h; one completed in the second
\* it started
DayBreakLists ==
    { <<>>,
      <<Shift(Ago(1), 0)>>,
      <<Shift(Ago(3), Ago(2))>>,
      <<Shift(Ago(2), Ago(2))>> }

\* user 1 with every shift list and break list; user 2 with no shifts, and with
\* two open shifts
DayRecords ==
    {Rec(1, s, b) : s \in DayShiftLists, b \in DayBreakLists}
        \cup {Rec(2, s, <<>>) : s \in {<<>>, <<Shift(Ago(3), 0), Shift(Ago(2), 0)>>}}

ManyDayResponses == UNION {[1..n -> DayRecords] : n \in 0..MaxRecs}

(***************************************************************************)
(* State                                                                   *)
(***************************************************************************)
VARIABLES
    pc,           \* where the call in progress stands
    mode,         \* the entry point called: "daily" or "weekly"
    calls,        \* calls made so far
    clock,        \* the wall clock, epoch seconds
    date,         \* the reference date of the call
    activities,   \* line 130: the day's timeActivitiesByUsers
    week_start,   \* line 76
    week_now_ts,  \* line 78: now_ts of get_weekly_totals_by_timeclock_id
    day_offset,   \* line 81
    summary,      \* line 80
    queries,      \* the requests sent at line 86 by this invocation
    weekly,       \* line 132: what the weekly call returned, when it has
    now_ts,       \* line 134: now_ts of get_employee_status_by_timeclock_id
    rows,         \* the locals of each snapshot, in the order of the returned list
    ret           \* what the call returned, when it has

vars == <<pc, mode, calls, clock, date, activities, week_start, week_now_ts,
          day_offset, summary, queries, weekly, now_ts, rows, ret>>

Init ==
    /\ pc = "idle"
    /\ mode = "none"
    /\ calls = 0
    /\ clock = Clock0
    /\ date = FirstDate
    /\ activities = <<>>
    /\ week_start = 0
    /\ week_now_ts = 0
    /\ day_offset = 0
    /\ summary = <<>>
    /\ queries = <<>>
    /\ weekly = <<>>
    /\ now_ts = 0
    /\ rows = <<>>
    /\ ret = <<>>

\* no call is in progress
Ready == pc \in {"idle", "done", "error"}

\* lines 76-80 with week_ending taken for the last day of the week
EnterWeeklyEndingAt(week_ending) ==
    /\ week_start' = week_ending - 6
    /\ week_now_ts' = clock
    /\ summary' = <<>>
    /\ day_offset' = 0
    /\ queries' = <<>>
    /\ pc' = "week_query"

\* lines 76-80: the entry of get_weekly_totals_by_timeclock_id
EnterWeekly(week_ending) ==
    /\ week_start' = week_ending - Weekday(week_ending)
    /\ week_now_ts' = clock
    /\ summary' = <<>>
    /\ day_offset' = 0
    /\ queries' = <<>>
    /\ pc' = "week_query"

\* lines 118-120: outside business hours the call returns [] at once
CallDailyClosed(max_calls, within) ==
    /\ Ready /\ calls < max_calls
    /\ ~within
    /\ calls' = calls + 1
    /\ mode' = "daily"
    /\ pc' = "done"
    /\ ret' = << <<>> >>
    /\ activities' = <<>> /\ weekly' = <<>> /\ rows' = <<>>
    /\ summary' = <<>> /\ queries' = <<>> /\ day_offset' = 0
    /\ week_start' = 0 /\ week_now_ts' = 0 /\ now_ts' = 0
    /\ UNCHANGED <<clock, date>>

\* lines 118-128: within business hours the day's request is sent
CallDaily(max_calls, d, within) ==
    /\ Ready /\ calls < max_calls
    /\ within
    /\ calls' = calls + 1
    /\ mode' = "daily"
    /\ date' = d
    /\ pc' = "day_query"
    /\ ret' = <<>>
    /\ activities' = <<>> /\ weekly' = <<>> /\ rows' = <<>>
    /\ summary' = <<>> /\ queries' = <<>> /\ day_offset' = 0
    /\ week_start' = 0 /\ week_now_ts' = 0 /\ now_ts' = 0
    /\ UNCHANGED clock

\* line 129: raise_for_status raises, and the call returns nothing
DayQueryFail ==
    /\ pc = "day_query"
    /\ pc' = "error"
    /\ UNCHANGED <<mode, calls, clock, date, activities, week_start, week_now_ts,
                   day_offset, summary, queries, weekly, now_ts, rows, ret>>

\* lines 128-132: the day's response arrives and the weekly call is entered
DayQueryOk(resp) ==
    /\ pc = "day_query"
    /\ activities' = resp
    /\ EnterWeekly(date)
    /\ UNCHANGED <<mode, calls, clock, date, weekly, now_ts, rows, ret>>

\* get_weekly_totals_by_timeclock_id called on its own
CallWeekly(max_calls, d) ==
    /\ Ready /\ calls < max_calls
    /\ calls' = calls + 1
    /\ mode' = "weekly"
    /\ date' = d
    /\ EnterWeekly(d)
    /\ ret' = <<>>
    /\ activities' = <<>> /\ weekly' = <<>> /\ rows' = <<>> /\ now_ts' = 0
    /\ UNCHANGED clock

\* lines 82-85: the params of the request of the day at day_offset
Params ==
    LET ds == IsoFormat(week_start + day_offset)
    IN  [startDate |-> ds, endDate |-> ds]

\* a request sent, and whether raise_for_status let it pass
Sent(ok) == [params |-> Params, ok |-> ok]

\* lines 86-87 with the failure swallowed and the loop going on
WeekQueryFailSkipsDay ==
    /\ pc = "week_query"
    /\ day_offset < 7
    /\ queries' = Append(queries, Sent(FALSE))
    /\ day_offset' = day_offset + 1
    /\ UNCHANGED <<pc, mode, calls, clock, date, activities, week_start, week_now_ts,
                   summary, weekly, now_ts, rows, ret>>

\* lines 86-87: the request of a day fails; the exception leaves both functions
WeekQueryFail ==
    /\ pc = "week_query"
    /\ queries' = Append(queries, Sent(FALSE))
    /\ pc' = "error"
    /\ UNCHANGED <<mode, calls, clock, date, activities, week_start, week_now_ts,
                   day_offset, summary, weekly, now_ts, rows, ret>>

\* lines 86-107: the response of a day other than the last is folded in
WeekQueryOk(resp) ==
    /\ pc = "week_query"
    /\ day_offset < 6
    /\ queries' = Append(queries, Sent(TRUE))
    /\ summary' = FoldDay(summary, resp, Params.startDate, week_now_ts)
    /\ day_offset' = day_offset + 1
    /\ UNCHANGED <<pc, mode, calls, clock, date, activities, week_start,
                   week_now_ts, weekly, now_ts, rows, ret>>

\* lines 86-115: the last day's response, the final pass and the return to a
\* caller outside
WeekLastQueryOk(resp) ==
    /\ pc = "week_query"
    /\ day_offset = 6
    /\ mode = "weekly"
    /\ queries' = Append(queries, Sent(TRUE))
    /\ summary' = Finalize(FoldDay(summary, resp, Params.startDate, week_now_ts))
    /\ day_offset' = day_offset + 1
    /\ ret' = <<summary'>>
    /\ pc' = "done"
    /\ UNCHANGED <<mode, calls, clock, date, activities, week_start,
                   week_now_ts, weekly, now_ts, rows>>

\* lines 86-115 and 132-215: the last day's response, the final pass, the
\* return to get_employee_status_by_timeclock_id and the rest of it
WeekLastQueryOkDaily(resp) ==
    /\ pc = "week_query"
    /\ day_offset = 6
    /\ mode = "daily"
    /\ queries' = Append(queries, Sent(TRUE))
    /\ summary' = Finalize(FoldDay(summary, resp, Params.startDate, week_now_ts))
    /\ day_offset' = day_offset + 1
    /\ weekly' = <<summary'>>
    /\ now_ts' = clock
    /\ rows' = SortedRows(activities, summary', clock)
    /\ ret' = <<Employees(rows')>>
    /\ pc' = "done"
    /\ UNCHANGED <<mode, calls, clock, date, activities, week_start, week_now_ts>>

\* a second passes while a request is out
Tick ==
    /\ pc \in {"day_query", "week_query"}
    /\ clock < Clock0 + MaxTicks
    /\ clock' = clock + 1
    /\ UNCHANGED <<pc, mode, calls, date, activities, week_start, week_now_ts,
                   day_offset, summary, queries, weekly, now_ts, rows, ret>>

Next ==
    \/ \E within \in BusinessHoursOutcomes : CallDailyClosed(MaxCalls, within)
    \/ \E d \in RefDates, within \in BusinessHoursOutcomes :
           CallDaily(MaxCalls, d, within)
    \/ \E d \in RefDates : CallWeekly(MaxCalls, d)
    \/ DayQueryFail
    \/ \E resp \in DayResponses : DayQueryOk(resp)
    \/ WeekQueryFail
    \/ \E resp \in WeekResponses : WeekQueryOk(resp)
    \/ \E resp \in WeekResponses : WeekLastQueryOk(resp)
    \/ \E resp \in WeekResponses : WeekLastQueryOkDaily(resp)
    \/ Tick

Spec == Init /\ [][Next]_vars

\* one call of the daily engine whose requests all pass, over many days'
\* responses and one week
NextDay ==
    \/ \E within \in BusinessHoursOutcomes : CallDailyClosed(1, within)
    \/ \E within \in BusinessHoursOutcomes : CallDaily(1, FirstDate, within)
    \/ \E resp \in ManyDayResponses : DayQueryOk(resp)
    \/ WeekQueryOk(WeekFull)
    \/ WeekLastQueryOkDaily(WeekFull)
    \/ Tick

DaySpec == Init /\ [][NextDay]_vars

(***************************************************************************)
(* Properties                                                              *)
(***************************************************************************)

\* the daily engine went past the business-hours gate and returned its list
DailyReturned == pc = "done" /\ mode = "daily" /\ weekly /= <<>>

\* the weekly aggregator was entered by the call in progress or just ended
WeeklyEntered == week_now_ts /= 0

\* the weekly aggregator returned its summary
WeeklyReturned == pc = "done" /\ day_offset = 7

\* the Monday of the week that holds the date
MondayOf(d) == CHOOSE m \in (d - 6)..d : m % 7 = 0

\* the ISO dates of the week that holds the date, Monday first
WeekDates(d) == [k \in 1..7 |-> IsoFormat(MondayOf(d) + k - 1)]

RECURSIVE SumOver(_, _)
SumOver(f, keys) ==
    IF keys = {} THEN 0
    ELSE LET k == CHOOSE x \in keys : TRUE
         IN  f[k] + SumOver(f, keys \ {k})

HasOpenShift(shifts) == \E k \in 1..Len(shifts) : shifts[k].start /= 0 /\ shifts[k].end = 0

HasOpenBreak(breaks) == \E k \in 1..Len(breaks) : breaks[k].start /= 0 /\ breaks[k].end = 0

HasCompletedBreak(breaks) ==
    \E k \in 1..Len(breaks) : breaks[k].start /= 0 /\ breaks[k].end /= 0

\* C1: the overtime of every emitted employee is the larger of the daily
\* overtime, max(0, net_daily - 8h), and the weekly overtime,
\* max(0, weeklySecs - 40h), with weeklySecs taken from the summary the weekly
\* aggregator returned and 0 for a user it does not hold; otToday is that
\* number formatted.
OvertimeIsMaxOfDailyAndWeekly ==
    DailyReturned =>
        \A i \in 1..Len(rows) :
            LET r == rows[i]
                wk == weekly[1]
                wsecs == IF r.uid \in DOMAIN wk THEN wk[r.uid].weeklySecs ELSE 0
                expected == Max(Max(0, r.net_daily_secs - 8 * 3600),
                                Max(0, wsecs - 40 * 3600))
            IN  /\ r.ot_secs = expected
                /\ ret[1][i].otToday = format_duration(expected)

\* net_daily = 7h and weekly = 42h give 2h
OvertimeFromTheWeek ==
    /\ DailyReturned
    /\ \E i \in 1..Len(rows) :
           /\ rows[i].net_daily_secs = 7 * 3600
           /\ rows[i].uid \in DOMAIN weekly[1]
           /\ weekly[1][rows[i].uid].weeklySecs = 42 * 3600
           /\ ret[1][i].otToday = "2:00"

\* C2: no net worked seconds are negative: not a value of dailySecs, not a
\* weeklySecs (running or returned), not the net_daily_secs of a snapshot.
NetNeverNegative ==
    /\ \A u \in DOMAIN summary :
           /\ summary[u].weeklySecs >= 0
           /\ \A d \in DOMAIN summary[u].dailySecs : summary[u].dailySecs[d] >= 0
    /\ \A i \in 1..Len(rows) : rows[i].net_daily_secs >= 0

\* completed breaks longer than the shifts, in the day and in the week
BreaksExceedShifts ==
    /\ DailyReturned
    /\ \E i \in 1..Len(rows) :
           rows[i].break_secs > rows[i].total_secs /\ rows[i].net_daily_secs = 0
    /\ \E u \in DOMAIN summary : \E d \in DOMAIN summary[u].dailySecs :
           summary[u].dailySecs[d] = 0

\* C3: when the weekly aggregator returns, every user's weeklySecs is the sum
\* of the values of that user's dailySecs, and the keys of dailySecs are among
\* the 7 dates of the reference date's week, Monday first.
WeeklyIsSumOfDaily ==
    WeeklyReturned =>
        \A u \in DOMAIN summary :
            /\ summary[u].weeklySecs =
                   SumOver(summary[u].dailySecs, DOMAIN summary[u].dailySecs)
            /\ DOMAIN summary[u].dailySecs
                   \subseteq {WeekDates(date)[k] : k \in 1..7}

\* C4: a failed request ends the call with nothing returned: no summary, no
\* employee list, and no request after the failed one.
FetchFailureAborts ==
    /\ pc = "error" => ret = <<>> /\ weekly = <<>> /\ rows = <<>>
    /\ \A i \in 1..Len(queries) :
           ~queries[i].ok => pc = "error" /\ i = Len(queries)

\* the week's third request fails under the daily engine, with two days folded
ThirdDayFails ==
    /\ pc = "error" /\ mode = "daily"
    /\ Len(queries) = 3 /\ ~queries[3].ok
    /\ summary /= <<>>

\* C6: one captured now serves the whole daily computation: the weekly rollup
\* it invokes credits open shifts to the same instant as the daily engine.
SingleNow == DailyReturned => week_now_ts = now_ts

\* C10 as stated: every invocation that has ended, either way, sent exactly
\* the 7 requests of the week, Monday to Sunday, startDate = endDate.
ExactlySevenQueries ==
    (WeeklyEntered /\ pc \in {"done", "error"}) =>
        [i \in 1..Len(queries) |-> queries[i].params]
            = [k \in 1..7 |-> [startDate |-> WeekDates(date)[k],
                               endDate |-> WeekDates(date)[k]]]

\* C10, amended: an invocation that returns has sent exactly the 7 requests of
\* the week, Monday to Sunday in that order, each with startDate = endDate;
\* one that a failed request ends has sent the first of them only, up to the
\* failed one; every invocation sends its own.
SevenQueriesWhenReturned ==
    WeeklyEntered =>
        /\ Len(queries) <= 7
        /\ \A i \in 1..Len(queries) :
               queries[i].params = [startDate |-> WeekDates(date)[i],
                                    endDate |-> WeekDates(date)[i]]
        /\ pc = "done" => Len(queries) = 7
        /\ pc = "week_query" => Len(queries) = day_offset

\* a second invocation, for Monday 2024-01-29, has sent its 7 requests
SecondInvocationSevenQueries ==
    /\ calls = 2 /\ pc = "done" /\ date = FirstDate + 1
    /\ Len(queries) = 7
    /\ queries[1].params = [startDate |-> "2024-01-29", endDate |-> "2024-01-29"]
    /\ queries[4].params = [startDate |-> "2024-02-01", endDate |-> "2024-02-01"]
    /\ queries[7].params = [startDate |-> "2024-02-04", endDate |-> "2024-02-04"]

\* the sort key of the snapshot at a place of the returned list: now minus the
\* start of the open shift, 0 without one
KeyAt(i) ==
    IF rows[i].current_start_ts /= 0 THEN now_ts - rows[i].current_start_ts ELSE 0

\* C5 as stated: the returned list is in descending order of the elapsed
\* seconds of the open segment, every employee with no open segment comes
\* after every employee with one, and no snapshot holds _segmentSecs.
SortedNoSegmentLast ==
    DailyReturned =>
        /\ \A i, j \in 1..Len(rows) : i < j => KeyAt(i) >= KeyAt(j)
        /\ \A i, j \in 1..Len(rows) :
               i < j => ~(rows[i].current_start_ts = 0 /\ rows[j].current_start_ts /= 0)
        /\ \A i \in 1..Len(ret[1]) : "_segmentSecs" \notin DOMAIN ret[1][i]

\* C5, amended: the returned list is in descending order of the sort key (the
\* elapsed seconds of the open segment, 0 without one), so every employee with
\* no open segment comes after every employee whose open segment has a
\* positive elapsed time; no snapshot holds _segmentSecs.
SortedByElapsedDescending ==
    DailyReturned =>
        /\ Len(ret[1]) = Len(rows)
        /\ \A i, j \in 1..Len(rows) : i < j => KeyAt(i) >= KeyAt(j)
        /\ \A i, j \in 1..Len(rows) :
               (rows[i].current_start_ts = 0 /\ rows[j].current_start_ts /= 0
                    /\ now_ts - rows[j].current_start_ts > 0) => j < i
        /\ \A i \in 1..Len(ret[1]) : "_segmentSecs" \notin DOMAIN ret[1][i]

\* the day's records hold an employee with no open shift first and one 2h into
\* an open shift second, and the list returns them the other way round
OpenSegmentMovedFirst ==
    /\ DailyReturned
    /\ Len(activities) = 2 /\ Len(ret[1]) = 2
    /\ ~HasOpenShift(activities[1].shifts) /\ HasOpenShift(activities[2].shifts)
    /\ rows[1].current_start_ts /= 0 /\ rows[2].current_start_ts = 0
    /\ ret[1][1].currentTimeOnClock = "2:00" /\ ret[1][2].currentTimeOnClock = "0:00"

\* C7: a user with a shift and a break that has a start and no end is
\* 'On Lunch', whatever the open shifts; any other is 'Clocked In' exactly when
\* an open shift exists, and 'Off' when none does.
StatusFollowsBreakThenShift ==
    DailyReturned =>
        \A i \in 1..Len(rows) :
            ret[1][i].status =
                IF HasOpenBreak(rows[i].manualBreaks) THEN "On Lunch"
                ELSE IF HasOpenShift(rows[i].shifts) THEN "Clocked In"
                ELSE "Off"

\* an open break and two open shifts
OnLunchWithOpenShifts ==
    /\ DailyReturned
    /\ \E i \in 1..Len(rows) :
           /\ HasOpenBreak(rows[i].manualBreaks)
           /\ Cardinality({k \in 1..Len(rows[i].shifts) :
                              rows[i].shifts[k].start /= 0 /\ rows[i].shifts[k].end = 0}) = 2
           /\ ret[1][i].status = "On Lunch"

\* the records of the day that have shifts
WithShifts == {k \in 1..Len(activities) : activities[k].shifts /= <<>>}

\* C8: a record with no shifts puts nothing in the returned list, and every
\* record with a shift puts exactly one snapshot in it: a user has as many
\* snapshots as records with shifts.
OneSnapshotPerRecordWithShifts ==
    DailyReturned =>
        /\ Len(ret[1]) = Cardinality(WithShifts)
        /\ \A k \in 1..Len(activities) :
               Cardinality({i \in 1..Len(ret[1]) :
                               ret[1][i].name = NameOf(activities[k].userId)})
                   = Cardinality({n \in WithShifts :
                                     activities[n].userId = activities[k].userId})

\* user 2 has no shifts and is left out; user 1, with shifts, is in
NoShiftsLeftOut ==
    /\ DailyReturned
    /\ Len(activities) = 2
    /\ activities[1].userId = 2 /\ activities[1].shifts = <<>>
    /\ activities[2].userId = 1
    /\ Len(ret[1]) = 1 /\ ret[1][1].name = "Ann B"

\* the lunch status and class that the graduated policy gives, when `taken`
\* says whether the lunch counts as taken
Graduated(taken, total) ==
    IF taken THEN <<"Taken", "lunch-ok">>
    ELSE IF total < 4 * 3600 THEN <<"Not Yet Due", "lunch-ok">>
    ELSE IF total < 5 * 3600 THEN <<"Due Now", "lunch-due">>
    ELSE <<"Overdue by " \o format_duration(total - 5 * 3600), "lunch-overdue">>

\* C9 as stated: lunchStatus is 'Taken' if any completed break exists, and
\* otherwise follows the total worked seconds: 'Not Yet Due' under 4h,
\* 'Due Now' from 4h to under 5h, 'Overdue by (total - 5h)' from 5h on, with
\* the classes lunch-ok, lunch-due and lunch-overdue.
LunchTakenIfAnyCompletedBreak ==
    DailyReturned =>
        \A i \in 1..Len(rows) :
            <<ret[1][i].lunchStatus, ret[1][i].lunchClass>> =
                Graduated(HasCompletedBreak(rows[i].manualBreaks),
                          WeeklyShiftSecs(rows[i].shifts, now_ts))

\* C9, amended: lunchStatus is 'Taken' if the seconds of the completed breaks
\* add up to more than 0, and otherwise follows the total shift seconds as
\* stated.
LunchTakenIfBreakSeconds ==
    DailyReturned =>
        \A i \in 1..Len(rows) :
            <<ret[1][i].lunchStatus, ret[1][i].lunchClass>> =
                Graduated(WeeklyBreakSecs(rows[i].manualBreaks) > 0,
                          WeeklyShiftSecs(rows[i].shifts, now_ts))

\* a break completed in the second it started, 5h into the shifts
OverdueDespiteCompletedBreak ==
    /\ DailyReturned
    /\ \E i \in 1..Len(rows) :
           /\ HasCompletedBreak(rows[i].manualBreaks)
           /\ ret[1][i].lunchStatus = "Overdue by 0:00"
           /\ ret[1][i].lunchClass = "lunch-overdue"

====
